---------------------------- MODULE Spec2Model ----------------------------
(***************************************************************************)
(* A model of the indexnow crate (src/src/lib.rs): the validated domain    *)
(* types EndpointUrl, Key, KeyfileUrl, KeyfileLocation and ContentUrl, and *)
(* the request builders submit_one_request, submit_set_request and submit, *)
(* and of the command line of src/src/main.rs that calls submit.            *)
(*                                                                         *)
(* Strings are TLA+ strings (sequences of characters); Ch(s, i) is the     *)
(* i-th character.  The parsers work on the characters: http::Uri parsing, *)
(* the key regex and the form-urlencoding are computed character by        *)
(* character, as the libraries the crate calls compute them.               *)
(***************************************************************************)
EXTENDS Integers, Sequences, FiniteSets, TLC

VARIABLES
    pc,       \* "idle" before the call; "returned", "panicked" or "exited" after
    op,       \* the function called
    input,    \* its arguments
    result,   \* what it returned: Ok(v), Err(e), or the panic that unwound
    printed   \* what main and submit have written to stdout (println!)

vars == <<pc, op, input, result, printed>>

----------------------------------------------------------------------------
(* Characters and character classes                                        *)

Ch(s, i) == SubSeq(s, i, i)

CharsOf(s) == {Ch(s, i) : i \in 1..Len(s)}

LowerAlpha == "abcdefghijklmnopqrstuvwxyz"
UpperAlpha == "ABCDEFGHIJKLMNOPQRSTUVWXYZ"
Digits == "0123456789"

UpperChars == CharsOf(UpperAlpha)
AlphaNum == CharsOf(LowerAlpha) \cup UpperChars \cup CharsOf(Digits)

\* the lower-case letter of every upper-case letter
LowerOf == [c \in UpperChars |->
               Ch(LowerAlpha, CHOOSE i \in 1..Len(UpperAlpha) : Ch(UpperAlpha, i) = c)]

\* u8::to_ascii_lowercase, as eq_ignore_ascii_case applies it
ToAsciiLowercase(c) == IF c \in UpperChars THEN LowerOf[c] ELSE c

EqIgnoreAsciiCase(a, b) ==
    /\ Len(a) = Len(b)
    /\ \A i \in 1..Len(a) : ToAsciiLowercase(Ch(a, i)) = ToAsciiLowercase(Ch(b, i))

\* Option<T>
None == [some |-> FALSE]
Some(v) == [some |-> TRUE, val |-> v]

\* Result<T, E>, and a panic unwinding out of the call
Ok(v) == [tag |-> "Ok", value |-> v]
Err(e) == [tag |-> "Err", error |-> e]
Panic(m) == [tag |-> "Panic", message |-> m]

----------------------------------------------------------------------------
(* http::Uri, as s.parse::<http::Uri>() builds it                          *)

\* http::uri::scheme: the longest scheme parsed as Scheme2::Other
MAX_SCHEME_LEN == 64
\* http::uri::authority: the most colons an authority may hold while scanned
MAX_COLONS == 8

\* SCHEME_CHARS: the bytes a scheme may hold (':' ends it)
SchemeChars == AlphaNum \cup CharsOf("+-.")

\* URI_CHARS: the bytes the table maps to themselves ('%' is handled apart)
UriChars == AlphaNum \cup CharsOf("!#$&'()*+,-./:;=?@[]_~")

\* PathAndQuery::from_shared: bytes allowed in the path and in the query.
\* The alphabet of the model is printable ASCII without the backslash, the
\* double quote and the backtick, which no input of the model holds.
PathChars == AlphaNum \cup CharsOf("!$%&'()*+,-./:;=@[]^_|~{}")
QueryChars == AlphaNum \cup CharsOf("!$%&'()*+,-./:;=?@[]^_{|}~")

RECURSIVE SchemeScan(_, _)
\* the loop of Scheme2::parse from byte i (1-based) on
SchemeScan(s, i) ==
    IF i > Len(s) THEN [kind |-> "None"]
    ELSE IF Ch(s, i) = ":" THEN
        IF Len(s) < (i - 1) + 3 THEN [kind |-> "None"]
        ELSE IF SubSeq(s, i + 1, i + 2) # "//" THEN [kind |-> "None"]
        ELSE IF i - 1 > MAX_SCHEME_LEN THEN [kind |-> "Err"]
        ELSE [kind |-> "Other", len |-> i - 1]
    ELSE IF Ch(s, i) \notin SchemeChars THEN [kind |-> "None"]
    ELSE SchemeScan(s, i + 1)

\* Scheme2::parse: "http://" and "https://" in any case are the standard
\* schemes; any other run of scheme characters before "://" is Other
Scheme2Parse(s) ==
    IF Len(s) >= 7 /\ EqIgnoreAsciiCase(SubSeq(s, 1, 7), "http://")
    THEN [kind |-> "Standard", name |-> "http", len |-> 4]
    ELSE IF Len(s) >= 8 /\ EqIgnoreAsciiCase(SubSeq(s, 1, 8), "https://")
    THEN [kind |-> "Standard", name |-> "https", len |-> 5]
    ELSE IF Len(s) > 3 THEN SchemeScan(s, 1)
    ELSE [kind |-> "None"]

AuthorityScanInit(s) ==
    [colon_cnt |-> 0, start_bracket |-> FALSE, end_bracket |-> FALSE,
     has_percent |-> FALSE, end |-> Len(s), at_sign_pos |-> -1, err |-> FALSE]

RECURSIVE AuthorityScan(_, _, _)
\* the loop of Authority::parse from byte i (1-based) on; positions in st
\* are 0-based as in the code, at_sign_pos = -1 is None
AuthorityScan(s, i, st) ==
    IF i > Len(s) THEN st
    ELSE LET b == Ch(s, i) IN
        IF b \in {"/", "?", "#"} THEN [st EXCEPT !.end = i - 1]
        ELSE IF b = ":" THEN
            IF st.colon_cnt >= MAX_COLONS THEN [st EXCEPT !.err = TRUE]
            ELSE AuthorityScan(s, i + 1, [st EXCEPT !.colon_cnt = @ + 1])
        ELSE IF b = "[" THEN
            IF st.has_percent \/ st.start_bracket THEN [st EXCEPT !.err = TRUE]
            ELSE AuthorityScan(s, i + 1, [st EXCEPT !.start_bracket = TRUE])
        ELSE IF b = "]" THEN
            IF (~st.start_bracket) \/ st.end_bracket THEN [st EXCEPT !.err = TRUE]
            ELSE AuthorityScan(s, i + 1,
                    [st EXCEPT !.end_bracket = TRUE, !.colon_cnt = 0,
                               !.has_percent = FALSE])
        ELSE IF b = "@" THEN
            AuthorityScan(s, i + 1,
                [st EXCEPT !.at_sign_pos = i - 1, !.colon_cnt = 0,
                           !.has_percent = FALSE])
        ELSE IF b = "%" THEN
            AuthorityScan(s, i + 1, [st EXCEPT !.has_percent = TRUE])
        ELSE IF b \notin UriChars THEN [st EXCEPT !.err = TRUE]
        ELSE AuthorityScan(s, i + 1, st)

\* Authority::parse after its loop: the checks on what the loop found
AuthorityCheck(st) ==
    IF st.err THEN Err("InvalidUriChar")
    ELSE IF st.start_bracket # st.end_bracket THEN Err("InvalidAuthority")
    ELSE IF st.colon_cnt > 1 THEN Err("InvalidAuthority")
    ELSE IF st.end > 0 /\ st.at_sign_pos = st.end - 1 THEN Err("InvalidAuthority")
    ELSE IF st.has_percent THEN Err("InvalidAuthority")
    ELSE Ok(st.end)

\* Authority::parse: Ok(end of the authority) or Err
AuthorityParse(s) == AuthorityCheck(AuthorityScan(s, 1, AuthorityScanInit(s)))

\* PathAndQuery.query = NONE (u16::MAX in the code): no '?' in the data
NONE == -1

\* the first position (1-based) of s from i on that holds a character of cs,
\* Len(s) + 1 when there is none
FindFrom(s, i, cs) ==
    LET hits == {j \in i..Len(s) : Ch(s, j) \in cs} IN
    IF hits = {} THEN Len(s) + 1
    ELSE CHOOSE j \in hits : \A k \in hits : j <= k

\* PathAndQuery::from_shared: the path runs to the first '?' or '#', the
\* query from the '?' to the first '#'; the fragment is cut off; a byte
\* outside the allowed ranges is an error
PathAndQueryScan(src, pathEnd, hasQuery, queryEnd) ==
    IF \E i \in 1..(pathEnd - 1) : Ch(src, i) \notin PathChars
    THEN Err("InvalidUriChar")
    ELSE IF hasQuery /\ \E i \in (pathEnd + 1)..(queryEnd - 1) :
                            Ch(src, i) \notin QueryChars
    THEN Err("InvalidUriChar")
    ELSE Ok([data |-> SubSeq(src, 1, queryEnd - 1),
             query |-> IF hasQuery THEN pathEnd - 1 ELSE NONE])

PathAndQueryFrom(src, pathEnd, hasQuery) ==
    PathAndQueryScan(src, pathEnd, hasQuery,
                     IF hasQuery THEN FindFrom(src, pathEnd + 1, {"#"}) ELSE pathEnd)

PathAndQuerySplit(src, pathEnd) ==
    PathAndQueryFrom(src, pathEnd, pathEnd <= Len(src) /\ Ch(src, pathEnd) = "?")

PathAndQueryParse(src) == PathAndQuerySplit(src, FindFrom(src, 1, {"?", "#"}))

EmptyPathAndQuery == [data |-> "", query |-> NONE]

\* parse_full at its end: the path and query parsed, or their error
ParseFullPath(scheme, authority, pq) ==
    IF pq.tag = "Err" THEN pq
    ELSE Ok([scheme |-> scheme, authority |-> authority, path_and_query |-> pq.value])

\* parse_full once the authority is found: without a scheme the authority
\* must be the whole string; with one it must not be empty, and the path and
\* query follow it
ParseFullAuthority(scheme, rest, auth) ==
    IF auth.tag = "Err" THEN auth
    ELSE IF ~scheme.some THEN
        IF auth.value # Len(rest) THEN Err("InvalidFormat")
        ELSE Ok([scheme |-> None, authority |-> rest,
                 path_and_query |-> EmptyPathAndQuery])
    ELSE IF auth.value = 0 THEN Err("InvalidFormat")
    ELSE ParseFullPath(scheme, SubSeq(rest, 1, auth.value),
                       PathAndQueryParse(SubSeq(rest, auth.value + 1, Len(rest))))

\* parse_full once the scheme is split off: rest is what follows "://"
ParseFullRest(scheme, rest) == ParseFullAuthority(scheme, rest, AuthorityParse(rest))

\* parse_full once Scheme2::parse has answered
ParseFullScheme(s, sch) ==
    IF sch.kind = "Err" THEN Err("SchemeTooLong")
    ELSE IF sch.kind = "None" THEN ParseFullRest(None, s)
    ELSE ParseFullRest(IF sch.kind = "Standard" THEN Some(sch.name)
                       ELSE Some(SubSeq(s, 1, sch.len)),
                       SubSeq(s, sch.len + 4, Len(s)))

\* uri::parse_full: scheme, then authority, then path and query
ParseFull(s) == ParseFullScheme(s, Scheme2Parse(s))

\* from_shared for one byte that is neither '/' nor '*': an authority
AuthorityOnly(s, auth) ==
    IF auth.tag = "Err" THEN auth
    ELSE IF auth.value # Len(s) THEN Err("InvalidUriChar")
    ELSE Ok([scheme |-> None, authority |-> s, path_and_query |-> EmptyPathAndQuery])

\* from_shared for a string that starts with '/': a path and query
PathOnly(pq) ==
    IF pq.tag = "Err" THEN pq
    ELSE Ok([scheme |-> None, authority |-> "", path_and_query |-> pq.value])

\* Uri::from_shared, which <http::Uri as FromStr>::from_str calls
UriFromStr(s) ==
    IF Len(s) = 0 THEN Err("Empty")
    ELSE IF Len(s) = 1 THEN
        IF s = "/" THEN Ok([scheme |-> None, authority |-> "",
                            path_and_query |-> [data |-> "/", query |-> NONE]])
        ELSE IF s = "*" THEN Ok([scheme |-> None, authority |-> "",
                                 path_and_query |-> [data |-> "*", query |-> NONE]])
        ELSE AuthorityOnly(s, AuthorityParse(s))
    ELSE IF Ch(s, 1) = "/" THEN PathOnly(PathAndQueryParse(s))
    ELSE ParseFull(s)

\* Uri::scheme
UriScheme(u) == u.scheme

\* PathAndQuery::path
PathOf(pq) ==
    IF pq.query = NONE
    THEN (IF pq.data = "" THEN "/" ELSE pq.data)
    ELSE (IF pq.query = 0 THEN "/" ELSE SubSeq(pq.data, 1, pq.query))

\* Uri::path: "" only for a URI with neither a scheme nor a path
UriPath(u) ==
    IF u.path_and_query.data # "" \/ u.scheme.some
    THEN PathOf(u.path_and_query)
    ELSE ""

\* Uri::query
UriQuery(u) ==
    IF u.path_and_query.query = NONE THEN None
    ELSE Some(SubSeq(u.path_and_query.data, u.path_and_query.query + 2,
                     Len(u.path_and_query.data)))

\* the last position (1-based) of s that holds c, 0 when there is none
RFind(s, c) ==
    LET hits == {j \in 1..Len(s) : Ch(s, j) = c} IN
    IF hits = {} THEN 0
    ELSE CHOOSE j \in hits : \A k \in hits : j >= k

\* uri::authority::host: what follows the last '@', up to the closing ']'
\* of a bracketed address or else up to the first ':'
HostOf(host_port) ==
    IF Len(host_port) > 0 /\ Ch(host_port, 1) = "["
    THEN SubSeq(host_port, 1, FindFrom(host_port, 1, {"]"}))
    ELSE SubSeq(host_port, 1, FindFrom(host_port, 1, {":"}) - 1)

AuthorityHost(auth) == HostOf(SubSeq(auth, RFind(auth, "@") + 1, Len(auth)))

\* Uri::host
UriHost(u) ==
    IF u.authority = "" THEN None ELSE Some(AuthorityHost(u.authority))

\* <Uri as Display>::fmt
UriDisplay(u) ==
    (IF u.scheme.some THEN u.scheme.val \o "://" ELSE "")
    \o u.authority
    \o UriPath(u)
    \o (IF u.path_and_query.query = NONE THEN "" ELSE "?" \o UriQuery(u).val)

----------------------------------------------------------------------------
(* The domain types of lib.rs                                              *)

\* the scheme test the three URL types share: Some(HTTP) or Some(HTTPS)
IsHttpScheme(uri) ==
    UriScheme(uri).some /\ UriScheme(uri).val \in {"http", "https"}

\* from_str of KeyfileUrl and ContentUrl after the URI is parsed; e is the
\* type's error
HttpUrlFromUri(uri, e) ==
    IF uri.tag = "Err" THEN Err(e)
    ELSE IF ~IsHttpScheme(uri.value) THEN Err(e)
    ELSE Ok(uri.value)

\* from_str with the scheme test left out
AnyUrlFromUri(uri, e) == IF uri.tag = "Err" THEN Err(e) ELSE Ok(uri.value)

\* EndpointUrl::from_str after the URI is parsed
EndpointUrlFromUri(uri) ==
    IF uri.tag = "Err" THEN Err("ParseEndpointUrlError")
    ELSE IF ~IsHttpScheme(uri.value) THEN Err("ParseEndpointUrlError")
    ELSE IF UriQuery(uri.value).some THEN Err("ParseEndpointUrlError")
    ELSE Ok(uri.value)

\* from_str with the query test left out
EndpointUrlFromStrNoQueryCheck(s) ==
    HttpUrlFromUri(UriFromStr(s), "ParseEndpointUrlError")

\* <EndpointUrl as FromStr>::from_str
EndpointUrlFromStr(s) == EndpointUrlFromUri(UriFromStr(s))

DefaultEndpointWithoutScheme == "api.indexnow.org/indexnow"

\* the literal EndpointUrl::default parses
DefaultEndpointLiteral == "https://api.indexnow.org/indexnow"

\* the key regex ^[a-zA-Z0-9\-]{8,128}$: the repetition's bounds
KEY_MIN_LEN == 8
KEY_MAX_LEN == 128

\* the regex's character class [a-zA-Z0-9\-]
KeyChars == AlphaNum \cup {"-"}

\* the regex without its anchors: some run of KEY_MIN_LEN class characters
KeyRegexIsMatchUnanchored(s) ==
    \E i \in 1..Len(s) :
        /\ i + KEY_MIN_LEN - 1 <= Len(s)
        /\ \A j \in i..(i + KEY_MIN_LEN - 1) : Ch(s, j) \in KeyChars

\* KEY_REGEX.is_match: anchored at both ends ($ is the end of the text)
KeyRegexIsMatch(s) ==
    /\ Len(s) >= KEY_MIN_LEN
    /\ Len(s) <= KEY_MAX_LEN
    /\ \A i \in 1..Len(s) : Ch(s, i) \in KeyChars

\* <Key as FromStr>::from_str
KeyFromStr(s) ==
    IF KeyRegexIsMatch(s) THEN Ok(s) ELSE Err("ParseKeyError")

KeyfileUrlFromStrAnyScheme(s) == AnyUrlFromUri(UriFromStr(s), "ParseKeyfileUrlError")

\* <KeyfileUrl as FromStr>::from_str
KeyfileUrlFromStr(s) == HttpUrlFromUri(UriFromStr(s), "ParseKeyfileUrlError")

\* <ContentUrl as FromStr>::from_str
ContentUrlFromStr(s) == HttpUrlFromUri(UriFromStr(s), "ParseContentUrlError")

\* enum KeyfileLocation
RootDirectory == [variant |-> "RootDirectory"]
Url(keyfile_url) == [variant |-> "Url", url |-> keyfile_url]

is_rootdirectoryNever(key_location) == FALSE

\* KeyfileLocation::is_rootdirectory, the skip_serializing_if of both forms
is_rootdirectory(key_location) == key_location = RootDirectory

----------------------------------------------------------------------------
(* serde_urlencoded::to_string and serde_json::to_vec, as the builders     *)
(* call them                                                               *)

\* printable ASCII in byte order, in the four runs the model's alphabet has:
\* 0x20-0x21, 0x23-0x5B, 0x5D-0x5F, 0x61-0x7E
AsciiRuns ==
    << [first |-> 32, chars |-> " !"],
       [first |-> 35,
        chars |-> "#$%&'()*+,-./0123456789:;<=>?@ABCDEFGHIJKLMNOPQRSTUVWXYZ["],
       [first |-> 93, chars |-> "]^_"],
       [first |-> 97, chars |-> "abcdefghijklmnopqrstuvwxyz{|}~"] >>

\* the characters of the model's alphabet
AsciiChars == UNION {CharsOf(AsciiRuns[k].chars) : k \in 1..Len(AsciiRuns)}

\* the byte value of every character
ByteTable ==
    [c \in AsciiChars |->
        LET run == AsciiRuns[CHOOSE k \in 1..Len(AsciiRuns) :
                                c \in CharsOf(AsciiRuns[k].chars)]
        IN  run.first + (CHOOSE i \in 1..Len(run.chars) : Ch(run.chars, i) = c) - 1]

\* the byte value of a character
ByteOf(c) == ByteTable[c]

HexDigits == "0123456789ABCDEF"

\* percent_encoding::percent_encode_byte: "%XX", upper-case hex
PercentEncodeByte(c) ==
    "%" \o Ch(HexDigits, (ByteOf(c) \div 16) + 1) \o Ch(HexDigits, (ByteOf(c) % 16) + 1)

\* form_urlencoded: the bytes byte_serialize leaves unchanged
FormUnchanged == AlphaNum \cup CharsOf("*-._")

\* what byte_serialize writes for one byte
ByteSerializeByte(c) ==
    IF c \in FormUnchanged THEN c
    ELSE IF c = " " THEN "+"
    ELSE PercentEncodeByte(c)

RECURSIVE ByteSerializeRange(_, _, _)
\* the encoding of the bytes lo..hi of s, one after the other
ByteSerializeRange(s, lo, hi) ==
    IF lo > hi THEN ""
    ELSE IF lo = hi THEN ByteSerializeByte(Ch(s, lo))
    ELSE LET mid == (lo + hi) \div 2 IN
         ByteSerializeRange(s, lo, mid) \o ByteSerializeRange(s, mid + 1, hi)

\* form_urlencoded::byte_serialize: the application/x-www-form-urlencoded
\* encoding of a string
ByteSerialize(s) == ByteSerializeRange(s, 1, Len(s))

\* what Serialize writes for a KeyfileLocation (untagged): the URL's string
\* for Url, a unit for RootDirectory
SerializeKeyfileLocation(key_location) ==
    IF key_location.variant = "Url"
    THEN [kind |-> "str", str |-> UriDisplay(key_location.url)]
    ELSE [kind |-> "unit"]

RECURSIVE JoinPairs(_, _)
\* name=value pairs joined by '&', names and values form-urlencoded
JoinPairs(pairs, i) ==
    IF i > Len(pairs) THEN ""
    ELSE (IF i > 1 THEN "&" ELSE "")
         \o ByteSerialize(pairs[i][1]) \o "=" \o ByteSerialize(pairs[i][2])
         \o JoinPairs(pairs, i + 1)

\* the pair of the keyLocation field: none when the field is skipped
KeyLocationPairs(skipped, loc) ==
    IF skipped THEN <<>> ELSE << <<"keyLocation", loc.str>> >>

\* the serializer over the fields that are not skipped
PairsToString(skipped, loc, pairs) ==
    IF ~skipped /\ loc.kind = "unit" THEN Err("unsupported value")
    ELSE Ok(JoinPairs(pairs \o KeyLocationPairs(skipped, loc), 1))

\* the fields in the order key, url
QueryToStringKeyFirst(url, key, key_location) ==
    PairsToString(is_rootdirectory(key_location),
                  SerializeKeyfileLocation(key_location),
                  << <<"key", key>>, <<"url", UriDisplay(url)>> >>)

\* serde_urlencoded::to_string(&Query { url, key, key_location }): the
\* fields in declaration order, keyLocation skipped for the root directory;
\* a unit is a value the serializer does not support
QueryToString(url, key, key_location) ==
    PairsToString(is_rootdirectory(key_location),
                  SerializeKeyfileLocation(key_location),
                  << <<"url", UriDisplay(url)>>, <<"key", key>> >>)

\* the JSON value null
JsonNull == [kind |-> "null"]

\* the member of the keyLocation field: none when the field is skipped
KeyLocationMembers(skipped, loc) ==
    IF skipped THEN <<>>
    ELSE << [name |-> "keyLocation",
             value |-> IF loc.kind = "unit" THEN JsonNull ELSE loc.str] >>

\* the URLs as strings, last first
UrlStringsReversed(url_list) ==
    [i \in 1..Len(url_list) |-> UriDisplay(url_list[Len(url_list) + 1 - i])]

\* the URLs as strings (ContentUrl serializes into String), in their order
UrlStrings(url_list) == [i \in 1..Len(url_list) |-> UriDisplay(url_list[i])]

\* serde_json::to_vec(&UrlSet { host, key, key_location, url_list }): the
\* JSON object, as the sequence of its members in declaration order
UrlSetToJson(host, key, key_location, url_list) ==
       << [name |-> "host", value |-> host], [name |-> "key", value |-> key] >>
    \o KeyLocationMembers(is_rootdirectory(key_location),
                          SerializeKeyfileLocation(key_location))
    \o << [name |-> "urlList", value |-> UrlStrings(url_list)] >>

----------------------------------------------------------------------------
(* The request builders of lib.rs                                          *)

\* Uri::from_parts: a scheme needs an authority and a path
UriFromParts(parts) ==
    IF parts.scheme.some /\ parts.authority = "" THEN Err("AuthorityMissing")
    ELSE IF parts.scheme.some /\ ~parts.path_and_query.some
    THEN Err("PathAndQueryMissing")
    ELSE IF ~parts.scheme.some /\ parts.authority # "" /\ parts.path_and_query.some
    THEN Err("SchemeMissing")
    ELSE Ok([scheme |-> parts.scheme, authority |-> parts.authority,
             path_and_query |-> IF parts.path_and_query.some
                                THEN parts.path_and_query.val
                                ELSE EmptyPathAndQuery])

\* http::Request<T>
Request(method, uri, headers, body) ==
    [method |-> method, uri |-> uri, headers |-> headers, body |-> body]

\* submit_one_request at its end: the URI put together, or its error
RequestOfUri(uri) ==
    IF uri.tag = "Err" THEN Err("Other")
    ELSE Ok(Request("GET", uri.value, <<>>, <<>>))

\* submit_one_request once the path and query is parsed: the endpoint's
\* parts with the new path and query
RequestOfPathAndQuery(endpoint, path_and_query) ==
    IF path_and_query.tag = "Err" THEN Err("Other")
    ELSE RequestOfUri(UriFromParts([scheme |-> endpoint.scheme,
                                    authority |-> endpoint.authority,
                                    path_and_query |-> Some(path_and_query.value)]))

\* submit_one_request once the query is serialized: the endpoint's path,
\* '?' and the query, parsed as a path and query
RequestOfQuery(endpoint, query) ==
    IF query.tag = "Err" THEN Err("Other")
    ELSE RequestOfPathAndQuery(endpoint,
            PathAndQueryParse(UriPath(endpoint) \o "?" \o query.value))

\* fn submit_one_request
submit_one_request(endpoint, key, key_location, url) ==
    RequestOfQuery(endpoint, QueryToString(url, key, key_location))

\* submit_set_request after urls[0].0.host(): .expect, then the request
RequestOfHost(endpoint, key, key_location, urls, host) ==
    IF ~host.some THEN Panic("validated newtype URL to have host")
    ELSE Ok(Request("POST", endpoint,
                    << <<"content-type", "application/json">> >>,
                    UrlSetToJson(host.val, key, key_location, urls)))

\* fn submit_set_request: urls[0] panics on an empty list
submit_set_request(endpoint, key, key_location, urls) ==
    IF Len(urls) = 0 THEN Panic("index out of bounds")
    ELSE RequestOfHost(endpoint, key, key_location, urls, UriHost(urls[1]))

\* submit after submit_one_request: .unwrap(), println!, then todo!()
PrintThenTodo(request) ==
    IF request.tag = "Err"
    THEN [printed |-> <<>>, outcome |-> Panic("called Result::unwrap on an Err value")]
    ELSE [printed |-> <<request.value>>, outcome |-> Panic("not yet implemented")]

\* fn submit, up to the todo!() that ends it: the requests it has printed,
\* and the panic that unwinds
submit(endpoint, key, key_location, urls) ==
    IF Len(urls) = 1
    THEN PrintThenTodo(submit_one_request(endpoint, key, key_location, urls[1]))
    ELSE [printed |-> <<>>, outcome |-> Panic("not yet implemented")]

----------------------------------------------------------------------------
(* The command line of main.rs                                             *)

\* num_args = 1..=10_000 of the URL values
NUM_ARGS_MIN == 1
NUM_ARGS_MAX == 10000

\* the process ends with an exit code
Exit(code) == [tag |-> "Exit", code |-> code]

\* clap takes the number of URL values
NumArgsAccepts(n) == NUM_ARGS_MIN <= n /\ n <= NUM_ARGS_MAX

\* clap parses a value with the FromStr of its field's type; an option
\* that is not given has no value
OptionFromStr(option, parsed) == IF option.some THEN Some(parsed) ELSE None

\* every value is parsed
CliValuesParse(key, urls, key_location, endpoint) ==
    /\ key.tag = "Ok"
    /\ \A i \in 1..Len(urls) : urls[i].tag = "Ok"
    /\ key_location.some => key_location.val.tag = "Ok"
    /\ endpoint.some => endpoint.val.tag = "Ok"

\* CliCommands::Submit of the parsed values: the endpoint is
\* EndpointUrl::default() when the option is not given
CliSubmit(key, urls, key_location, endpoint) ==
    [key |-> key.value,
     urls |-> [i \in 1..Len(urls) |-> urls[i].value],
     key_location |-> IF key_location.some THEN Some(key_location.val.value)
                      ELSE None,
     endpoint |-> IF endpoint.some THEN endpoint.val.value
                  ELSE EndpointUrlFromStr(DefaultEndpointLiteral).value]

\* the command of the parsed values, or clap's usage error, with which the
\* process exits
CliOfValues(key, urls, key_location, endpoint) ==
    IF NumArgsAccepts(Len(urls)) /\ CliValuesParse(key, urls, key_location, endpoint)
    THEN Ok(CliSubmit(key, urls, key_location, endpoint))
    ELSE Exit(2)

\* CliArguments::parse_from
CliParseFrom(key, urls, key_location, endpoint) ==
    IF ~NumArgsAccepts(Len(urls)) THEN Exit(2)
    ELSE CliOfValues(KeyFromStr(key),
                     [i \in 1..Len(urls) |-> ContentUrlFromStr(urls[i])],
                     OptionFromStr(key_location, KeyfileUrlFromStr(key_location.val)),
                     OptionFromStr(endpoint, EndpointUrlFromStr(endpoint.val)))

\* main's match on key_location
CliKeyfileLocation(key_location) ==
    IF key_location.some THEN Url(key_location.val) ELSE RootDirectory

\* main after println!("{:?}", cli): what submit prints comes after it
MainPrinted(cli, call) ==
    [printed |-> <<cli>> \o call.printed, outcome |-> call.outcome]

\* main once the command line is parsed: println!, then submit
MainSubmit(cli) ==
    IF cli.tag = "Exit" THEN [printed |-> <<>>, outcome |-> cli]
    ELSE MainPrinted(cli.value,
                     submit(cli.value.endpoint, cli.value.key,
                            CliKeyfileLocation(cli.value.key_location),
                            cli.value.urls))

\* fn main
main(key, urls, key_location, endpoint) ==
    MainSubmit(CliParseFrom(key, urls, key_location, endpoint))

----------------------------------------------------------------------------
(* The inputs of the model                                                 *)

\* the longest key string tried
MaxKeyLen == 130
\* the longest URL list handed to submit_set_request and submit
MaxUrls == 3

\* raw URL strings: every scheme, authority, path and tail put together,
\* and some strings of other shapes
RawSchemes == {"", "http://", "https://", "HtTpS://", "ftp://", "https:", "file://"}
RawAuthorities ==
    {"", "www.example.com", "api.indexnow.org", "localhost:8080",
     "user@example.org", "[::1]", "bad host"}
RawPaths == {"", "/", "/indexnow", "/folder/url2", "/a%20b+c~d", "/<x>"}
RawTails == {"", "?", "?url=x&key=y", "#frag", "?q=1#frag"}

RawUrls ==
    {sc \o au \o pa \o ta :
        sc \in RawSchemes, au \in RawAuthorities, pa \in RawPaths, ta \in RawTails}
    \cup {"*", "x", "example.com", "ftp://example.com",
          "https://api.indexnow.org/indexnow?url=url-changed&key=your-key",
          "https://api.indexnow.org/indexnow?url=x&key=y"}

RECURSIVE Repeat(_, _)
\* the character c, n times
Repeat(c, n) ==
    IF n = 0 THEN ""
    ELSE IF n = 1 THEN c
    ELSE Repeat(c, n \div 2) \o Repeat(c, n - (n \div 2))

\* s with the character at position p replaced by c
WithCharAt(s, p, c) == SubSeq(s, 1, p - 1) \o c \o SubSeq(s, p + 1, Len(s))

\* raw key strings: every length up to MaxKeyLen of one class character,
\* the same with one character outside the class at either end or inside,
\* and the keys of the crate's tests
RawKeys ==
    {Repeat(c, n) : c \in {"a", "Z", "7", "-"}, n \in 0..MaxKeyLen}
    \cup UNION {{WithCharAt(Repeat("k", n), p, c) :
                    p \in {1, (n + 1) \div 2, n}, c \in {"_", " ", ".", "%", "/"}} :
                n \in 1..MaxKeyLen}
    \cup {"687a308e4eff49f994d89eb22f764514", "your-key", "My-Key-01"}

\* the values among the results of a from_str
Values(results) == {r.value : r \in {q \in results : q.tag = "Ok"}}

\* the values of a type: what its from_str returns for the raw strings
Parsed(raw, from_str(_)) == Values({from_str(s) : s \in raw})

\* the endpoints, keys, key file locations and content URLs the builders
\* are called with
BuilderEndpoints ==
    Parsed({"https://api.indexnow.org/indexnow", "http://localhost:8080",
            "HTTPS://user@example.org/indexnow/#frag"}, EndpointUrlFromStr)
BuilderKeys == Parsed({"687a308e4eff49f994d89eb22f764514", "My-Key-01"}, KeyFromStr)
BuilderKeyfileLocations ==
    {RootDirectory}
    \cup {Url(u) : u \in Parsed({"http://www.example.com/myIndexNowKey63638.txt",
                                 "https://www.example.com/a%20b/key.txt?v=1&w=2"},
                                KeyfileUrlFromStr)}
BuilderContentUrls ==
    Parsed({sc \o au \o pa \o ta :
                sc \in {"http://", "HTTPS://"},
                au \in {"www.example.com", "user@example.org:8080", "[::1]"},
                pa \in {"", "/product.html", "/a%20b+c~d"},
                ta \in {"", "?a=b&c=d", "#frag"}},
           ContentUrlFromStr)
BatchContentUrls ==
    Parsed({"https://www.example.com/url1", "https://www.example.com/folder/url2",
            "https://www.example.com/url3", "http://other.example.org/url4?x=1"},
           ContentUrlFromStr)

\* the sequences over S of length at most n
SeqsUpTo(S, n) == UNION {[1..k -> S] : k \in 0..n}

\* the URLs of test_submit_set_request, all of www.example.com
ExampleUrlStrings ==
    <<"https://www.example.com/url1", "https://www.example.com/folder/url2",
      "https://www.example.com/url3">>
ExampleUrls == [i \in 1..3 |-> ContentUrlFromStr(ExampleUrlStrings[i]).value]

\* n elements: the elements of the sequence in turn, over and over
Cycle(elements, n) == [i \in 1..n |-> elements[((i - 1) % Len(elements)) + 1]]

\* the URL lists submit_set_request and submit are called with: the short
\* ones, and lists of 10,000 and of 10,001 URLs of one host
UrlLists ==
    SeqsUpTo(BatchContentUrls, MaxUrls)
    \cup {Cycle(ExampleUrls, n) : n \in {NUM_ARGS_MAX, NUM_ARGS_MAX + 1}}

\* the command lines main is started with: the key, the URL values, the
\* --key-location and --endpoint options when given
CliKeys == {"687a308e4eff49f994d89eb22f764514", "short"}
CliUrlValues ==
    SeqsUpTo({"https://www.example.com/url1", "ftp://example.com"}, 2)
    \cup {Cycle(ExampleUrlStrings, n) : n \in {NUM_ARGS_MAX, NUM_ARGS_MAX + 1}}
CliKeyLocations == {None, Some("http://www.example.com/myIndexNowKey63638.txt")}
CliEndpoints == {None, Some("http://localhost:8080")}

----------------------------------------------------------------------------
(* The state machine: one call of one function of the crate, or one run   *)
(* of main                                                                 *)

Init ==
    /\ pc = "idle"
    /\ op = "none"
    /\ input = <<>>
    /\ result = <<>>
    /\ printed = <<>>

\* a call that ends as out does: a panic unwinds, anything else is returned
Ends(name, args, out, lines) ==
    /\ pc' = IF out.tag = "Panic" THEN "panicked" ELSE "returned"
    /\ op' = name
    /\ input' = args
    /\ result' = out
    /\ printed' = lines

\* a call that ends as call.outcome does, having printed call.printed
EndsCall(name, args, call) == Ends(name, args, call.outcome, call.printed)

ParseEndpointUrl ==
    /\ pc = "idle"
    /\ \E s \in RawUrls :
           Ends("EndpointUrl::from_str", [s |-> s], EndpointUrlFromStr(s), <<>>)

ParseKeyfileUrl ==
    /\ pc = "idle"
    /\ \E s \in RawUrls :
           Ends("KeyfileUrl::from_str", [s |-> s], KeyfileUrlFromStr(s), <<>>)

ParseContentUrl ==
    /\ pc = "idle"
    /\ \E s \in RawUrls :
           Ends("ContentUrl::from_str", [s |-> s], ContentUrlFromStr(s), <<>>)

ParseKey ==
    /\ pc = "idle"
    /\ \E s \in RawKeys :
           Ends("Key::from_str", [s |-> s], KeyFromStr(s), <<>>)

\* <EndpointUrl as Default>::default: parse the literal, .expect the result
Expect(parsed, message) == IF parsed.tag = "Ok" THEN parsed ELSE Panic(message)

DefaultEndpointUrl ==
    /\ pc = "idle"
    /\ Ends("EndpointUrl::default", [s |-> DefaultEndpointLiteral],
            Expect(EndpointUrlFromStr(DefaultEndpointLiteral),
                   "known valid endpoint URL can be parsed"), <<>>)

SubmitOneRequest ==
    /\ pc = "idle"
    /\ \E endpoint \in BuilderEndpoints, key \in BuilderKeys,
          key_location \in BuilderKeyfileLocations, url \in BuilderContentUrls :
           Ends("submit_one_request",
                [endpoint |-> endpoint, key |-> key,
                 key_location |-> key_location, url |-> url],
                submit_one_request(endpoint, key, key_location, url), <<>>)

SubmitSetRequest ==
    /\ pc = "idle"
    /\ \E endpoint \in BuilderEndpoints, key \in BuilderKeys,
          key_location \in BuilderKeyfileLocations,
          urls \in UrlLists :
           Ends("submit_set_request",
                [endpoint |-> endpoint, key |-> key,
                 key_location |-> key_location, urls |-> urls],
                submit_set_request(endpoint, key, key_location, urls), <<>>)

Submit ==
    /\ pc = "idle"
    /\ \E endpoint \in BuilderEndpoints, key \in BuilderKeys,
          key_location \in BuilderKeyfileLocations,
          urls \in UrlLists :
           EndsCall("submit",
                    [endpoint |-> endpoint, key |-> key,
                     key_location |-> key_location, urls |-> urls],
                    submit(endpoint, key, key_location, urls))

\* the process of main.rs ends as run does: it exits on a usage error, and
\* else ends as submit does
MainEnds(args, run) ==
    /\ pc' = IF run.outcome.tag = "Exit" THEN "exited"
             ELSE IF run.outcome.tag = "Panic" THEN "panicked" ELSE "returned"
    /\ op' = "main"
    /\ input' = args
    /\ result' = run.outcome
    /\ printed' = run.printed

Main ==
    /\ pc = "idle"
    /\ \E key \in CliKeys, urls \in CliUrlValues,
          key_location \in CliKeyLocations, endpoint \in CliEndpoints :
           MainEnds([key |-> key, urls |-> urls,
                     key_location |-> key_location, endpoint |-> endpoint],
                    main(key, urls, key_location, endpoint))

Next ==
    \/ ParseEndpointUrl
    \/ ParseKeyfileUrl
    \/ ParseContentUrl
    \/ ParseKey
    \/ DefaultEndpointUrl
    \/ SubmitOneRequest
    \/ SubmitSetRequest
    \/ Submit
    \/ Main

Spec == Init /\ [][Next]_vars

----------------------------------------------------------------------------
(* Reading a request back: what a server that receives it sees             *)

RECURSIVE SplitFrom(_, _, _)
\* the pieces of s from position i on, cut at every character c
SplitFrom(s, i, c) ==
    IF FindFrom(s, i, {c}) > Len(s) THEN <<SubSeq(s, i, Len(s))>>
    ELSE <<SubSeq(s, i, FindFrom(s, i, {c}) - 1)>>
         \o SplitFrom(s, FindFrom(s, i, {c}) + 1, c)

\* name=value, cut at the first '='
ParamOf(piece) ==
    [name |-> SubSeq(piece, 1, FindFrom(piece, 1, {"="}) - 1),
     value |-> SubSeq(piece, FindFrom(piece, 1, {"="}) + 1, Len(piece))]

\* the parameters of a query string, in their order
QueryParams(query) ==
    [k \in 1..Len(SplitFrom(query, 1, "&")) |-> ParamOf(SplitFrom(query, 1, "&")[k])]

\* the parameters of the URI of a request
ParamsOf(request) == QueryParams(UriQuery(request.uri).val)

\* the value of two hexadecimal digits
HexValue(xx) ==
    16 * ((CHOOSE i \in 1..16 : Ch(HexDigits, i) = Ch(xx, 1)) - 1)
    + ((CHOOSE i \in 1..16 : Ch(HexDigits, i) = Ch(xx, 2)) - 1)

\* what the character at position i of a form-urlencoded string decodes to:
\* nothing for the two digits after a '%'
DecodeAt(s, i) ==
    IF (i > 1 /\ Ch(s, i - 1) = "%") \/ (i > 2 /\ Ch(s, i - 2) = "%") THEN ""
    ELSE IF Ch(s, i) = "+" THEN " "
    ELSE IF Ch(s, i) = "%"
    THEN CHOOSE c \in AsciiChars : ByteTable[c] = HexValue(SubSeq(s, i + 1, i + 2))
    ELSE Ch(s, i)

RECURSIVE DecodeRange(_, _, _)
DecodeRange(s, lo, hi) ==
    IF lo > hi THEN ""
    ELSE IF lo = hi THEN DecodeAt(s, lo)
    ELSE DecodeRange(s, lo, (lo + hi) \div 2) \o DecodeRange(s, ((lo + hi) \div 2) + 1, hi)

\* the string a form-urlencoded value stands for
FormDecode(s) == DecodeRange(s, 1, Len(s))

\* a form-urlencoded value: unreserved characters, '+' and %XX escapes only
IsFormEncoded(s) ==
    \A i \in 1..Len(s) :
        \/ Ch(s, i) \in AlphaNum \cup {"*", "-", ".", "_", "+"}
        \/ /\ Ch(s, i) = "%"
           /\ i + 2 <= Len(s)
           /\ Ch(s, i + 1) \in CharsOf(HexDigits)
           /\ Ch(s, i + 2) \in CharsOf(HexDigits)

\* the members of a JSON object that have the name
Members(body, name) == SelectSeq(body, LAMBDA m : m.name = name)

\* s carries a query string: a '?' before any '#'
HasQueryString(s) ==
    \E i \in 1..Len(s) : Ch(s, i) = "?" /\ \A j \in 1..(i - 1) : Ch(s, j) # "#"

\* s starts with http:// or https://, in any case
StartsWithHttp(s) ==
    \/ Len(s) >= 7 /\ EqIgnoreAsciiCase(SubSeq(s, 1, 7), "http://")
    \/ Len(s) >= 8 /\ EqIgnoreAsciiCase(SubSeq(s, 1, 8), "https://")

FromStrOps == {"EndpointUrl::from_str", "KeyfileUrl::from_str", "ContentUrl::from_str"}

\* the parse error of the type an operation parses
ParseErrorOf(name) ==
    IF name = "EndpointUrl::from_str" THEN "ParseEndpointUrlError"
    ELSE IF name = "KeyfileUrl::from_str" THEN "ParseKeyfileUrlError"
    ELSE "ParseContentUrlError"

----------------------------------------------------------------------------
(* The claims                                                              *)

\* C1: submit_one_request returns a GET request with an empty body, the
\* endpoint's scheme, authority and path, and a query string that starts
\* with url=<the content URL, percent-encoded> and key=<the key>, in this
\* order, before any keyLocation parameter.
C1_SingleRequestShape ==
    op = "submit_one_request" =>
        /\ pc = "returned"
        /\ result.tag = "Ok"
        /\ result.value.method = "GET"
        /\ result.value.body = <<>>
        /\ result.value.uri.scheme = input.endpoint.scheme
        /\ result.value.uri.authority = input.endpoint.authority
        /\ UriPath(result.value.uri) = UriPath(input.endpoint)
        /\ UriQuery(result.value.uri).some
        /\ Len(ParamsOf(result.value)) >= 2
        /\ ParamsOf(result.value)[1].name = "url"
        /\ IsFormEncoded(ParamsOf(result.value)[1].value)
        /\ FormDecode(ParamsOf(result.value)[1].value) = UriDisplay(input.url)
        /\ ParamsOf(result.value)[2].name = "key"
        /\ ParamsOf(result.value)[2].value = input.key
        /\ \A i \in 3..Len(ParamsOf(result.value)) :
                ParamsOf(result.value)[i].name = "keyLocation"

\* the case of test_submit_one_request
C1_Witness ==
    /\ op = "submit_one_request"
    /\ UriDisplay(input.endpoint) = "https://api.indexnow.org/indexnow"
    /\ input.key = "687a308e4eff49f994d89eb22f764514"
    /\ input.key_location = RootDirectory
    /\ UriDisplay(input.url) = "https://www.example.com/product.html"
    /\ result.tag = "Ok"
    /\ UriDisplay(result.value.uri) =
        "https://api.indexnow.org/indexnow?url=https%3A%2F%2Fwww.example.com%2Fproduct.html&key=687a308e4eff49f994d89eb22f764514"

\* C2: for a non-empty list, submit_set_request returns a POST request to
\* the endpoint as it is, without a query string, with Content-Type
\* application/json and a JSON body whose host is the host of the first URL,
\* whose key is the key and whose urlList is the URLs as strings in the
\* caller's order.
C2_BatchRequestShape ==
    (op = "submit_set_request" /\ Len(input.urls) >= 1) =>
        /\ pc = "returned"
        /\ result.tag = "Ok"
        /\ result.value.method = "POST"
        /\ result.value.uri = input.endpoint
        /\ ~UriQuery(result.value.uri).some
        /\ result.value.headers = << <<"content-type", "application/json">> >>
        /\ Members(result.value.body, "host") =
            << [name |-> "host", value |-> UriHost(input.urls[1]).val] >>
        /\ Members(result.value.body, "key") =
            << [name |-> "key", value |-> input.key] >>
        /\ Len(Members(result.value.body, "urlList")) = 1
        /\ Len(Members(result.value.body, "urlList")[1].value) = Len(input.urls)
        /\ \A i \in 1..Len(input.urls) :
                Members(result.value.body, "urlList")[1].value[i]
                    = UriDisplay(input.urls[i])

\* the case of test_submit_set_request
C2_Witness ==
    /\ op = "submit_set_request"
    /\ Len(input.urls) = 3
    /\ UriDisplay(input.urls[1]) = "https://www.example.com/url1"
    /\ UriDisplay(input.urls[2]) = "https://www.example.com/folder/url2"
    /\ UriDisplay(input.urls[3]) = "https://www.example.com/url3"
    /\ result.tag = "Ok"
    /\ Members(result.value.body, "host")[1].value = "www.example.com"
    /\ Members(result.value.body, "urlList")[1].value =
        <<"https://www.example.com/url1", "https://www.example.com/folder/url2",
          "https://www.example.com/url3">>

\* C3: in both forms keyLocation is there exactly for KeyfileLocation::Url:
\* then the GET query ends with keyLocation=<the URL, percent-encoded> and
\* the JSON body has one keyLocation member, the URL's string; for
\* RootDirectory the query has no keyLocation parameter and the body no
\* keyLocation member, not even a null one.
C3_KeyLocationOnlyForUrl ==
    /\ (op = "submit_one_request" /\ result.tag = "Ok") =>
        IF input.key_location.variant = "Url"
        THEN /\ Len(ParamsOf(result.value)) = 3
             /\ ParamsOf(result.value)[3].name = "keyLocation"
             /\ IsFormEncoded(ParamsOf(result.value)[3].value)
             /\ FormDecode(ParamsOf(result.value)[3].value)
                    = UriDisplay(input.key_location.url)
        ELSE \A i \in 1..Len(ParamsOf(result.value)) :
                ParamsOf(result.value)[i].name # "keyLocation"
    /\ (op = "submit_set_request" /\ result.tag = "Ok") =>
        IF input.key_location.variant = "Url"
        THEN /\ Len(Members(result.value.body, "keyLocation")) = 1
             /\ Members(result.value.body, "keyLocation")[1].value
                    = UriDisplay(input.key_location.url)
        ELSE Members(result.value.body, "keyLocation") = <<>>

\* the case of test_submit_set_request_with_location
C3_Witness ==
    /\ op = "submit_set_request"
    /\ input.key_location.variant = "Url"
    /\ result.tag = "Ok"
    /\ Len(Members(result.value.body, "keyLocation")) = 1
    /\ Members(result.value.body, "keyLocation")[1].value
            = "http://www.example.com/myIndexNowKey63638.txt"

\* C4: submit_set_request with an empty list returns an error; it does not
\* panic.
C4_EmptyListIsAnError ==
    (op = "submit_set_request" /\ Len(input.urls) = 0) =>
        (pc = "returned" /\ result.tag = "Err")

\* C5: submit with a non-empty list builds exactly one request and returns.
C5_SubmitBuildsOneRequestAndReturns ==
    (op = "submit" /\ Len(input.urls) >= 1) =>
        (pc = "returned" /\ Len(printed) = 1)

\* C6: EndpointUrl::from_str fails for every string that carries a query
\* string, and no EndpointUrl has a query: neither one just parsed nor one a
\* request builder is handed.
C6_EndpointHasNoQuery ==
    /\ (op = "EndpointUrl::from_str" /\ HasQueryString(input.s)) =>
            result = Err("ParseEndpointUrlError")
    /\ (op = "EndpointUrl::from_str" /\ result.tag = "Ok") =>
            /\ ~UriQuery(result.value).some
            /\ "?" \notin CharsOf(UriDisplay(result.value))
    /\ op \in {"submit_one_request", "submit_set_request", "submit"} =>
            ~UriQuery(input.endpoint).some

\* the case of the spec: an absolute https URL that only its query makes
\* no endpoint
C6_Witness ==
    /\ op = "EndpointUrl::from_str"
    /\ input.s = "https://api.indexnow.org/indexnow?url=x&key=y"
    /\ result.tag = "Err"
    /\ ContentUrlFromStr(input.s).tag = "Ok"

\* C7: EndpointUrl, KeyfileUrl and ContentUrl parse only strings that start
\* with http:// or https://: any other scheme and no scheme fail with the
\* type's parse error, and every value has the scheme http or https.
C7_OnlyHttpSchemes ==
    op \in FromStrOps =>
        /\ ~StartsWithHttp(input.s) => result = Err(ParseErrorOf(op))
        /\ result.tag = "Ok" => result.value.scheme \in {Some("http"), Some("https")}
        /\ result.tag # "Ok" => result = Err(ParseErrorOf(op))

\* the case of the spec: another scheme
C7_Witness ==
    /\ op = "KeyfileUrl::from_str"
    /\ input.s = "ftp://example.com"
    /\ result = Err("ParseKeyfileUrlError")

\* C8: Key::from_str succeeds exactly for the strings of 8 to 128 characters
\* that are all ASCII letters, digits or hyphens, and the key is then the
\* string unchanged.
C8_KeyValidity ==
    op = "Key::from_str" =>
        /\ (result.tag = "Ok") <=>
            /\ Len(input.s) >= 8
            /\ Len(input.s) <= 128
            /\ \A i \in 1..Len(input.s) :
                Ch(input.s, i) \in CharsOf(
                    "ABCDEFGHIJKLMNOPQRSTUVWXYZabcdefghijklmnopqrstuvwxyz0123456789-")
        /\ result.tag = "Ok" => result.value = input.s
        /\ result.tag # "Ok" => result = Err("ParseKeyError")

\* the upper boundary: a key of 128 characters
C8_Witness ==
    /\ op = "Key::from_str"
    /\ Len(input.s) = 128
    /\ result = Ok(input.s)

\* C9: EndpointUrl::default returns, and returns what parsing
\* https://api.indexnow.org/indexnow gives: an https URL without a query.
C9_DefaultEndpoint ==
    op = "EndpointUrl::default" =>
        /\ pc = "returned"
        /\ result = EndpointUrlFromStr("https://api.indexnow.org/indexnow")
        /\ result.tag = "Ok"
        /\ result.value.scheme = Some("https")
        /\ ~UriQuery(result.value).some
        /\ UriDisplay(result.value) = "https://api.indexnow.org/indexnow"

C9_Witness ==
    /\ op = "EndpointUrl::default"
    /\ pc = "returned"
    /\ result.tag = "Ok"

\* C10: in every request submit_set_request returns, all URLs of the list
\* have the host of the first URL.
C10_BatchSharesOneHost ==
    (op = "submit_set_request" /\ result.tag = "Ok") =>
        \A i \in 1..Len(input.urls) : UriHost(input.urls[i]) = UriHost(input.urls[1])


\* C11: every request submit_set_request returns, whoever calls it, has a
\* urlList of at most 10,000 URLs.
C11_BatchSizeBoundedInCore ==
    (op = "submit_set_request" /\ result.tag = "Ok") =>
        /\ Len(input.urls) <= 10000
        /\ \A i \in 1..Len(Members(result.value.body, "urlList")) :
                Len(Members(result.value.body, "urlList")[i].value) <= 10000

=============================================================================
